---------------------------- MODULE Spec2Model ----------------------------
(***************************************************************************)
(* Composer Fork Status Reporter (src/fork-status.js).                     *)
(*                                                                         *)
(* Strings are sequences of one-character strings, so that the string      *)
(* operations of the script (replace, split, indexOf, startsWith, slice,   *)
(* toLowerCase, the owner/repo regular expression) are computed and not    *)
(* assumed.  The empty sequence stands for the empty string and, where the *)
(* script only tests truthiness, also for undefined / null.                *)
(***************************************************************************)
EXTENDS Integers, Sequences, FiniteSets, TLC

VARIABLES
    require,        \* composer.require        (ordered list of <<key, constraint>>)
    requireDev,     \* composer['require-dev'] (ordered list of <<key, constraint>>)
    repositories,   \* composer.repositories   (list of [type, url])
    dependencies,   \* const dependencies (line 90)
    forks,          \* const forks (line 92)
    now,            \* the wall clock read by new Date(): seconds and milliseconds
    output,         \* const output of the main runner (line 432)
    i,              \* index of the fork the for-of loop is at (line 433)
    pc,             \* where the main runner is suspended
    frame,          \* locals of the getForkStatus call that is active or ended last
    inflight,       \* requests issued and not yet answered
    lastIssued,     \* the request issued last
    lastAnswer,     \* what githubApi gave the await that resumed last
    finalOutput,    \* what console.log received (line 441)
    input,          \* argument of a routine called on its own
    result          \* the value it returned

vars == <<require, requireDev, repositories, dependencies, forks, now, output, i,
          pc, frame, inflight, lastIssued, lastAnswer, finalOutput, input, result>>

-----------------------------------------------------------------------------
(* String primitives of JavaScript used by the script.                     *)

UpperChars ==
    <<"A", "B", "C", "D", "E", "F", "G", "H", "I", "J", "K", "L", "M",
      "N", "O", "P", "Q", "R", "S", "T", "U", "V", "W", "X", "Y", "Z">>

LowerChars ==
    <<"a", "b", "c", "d", "e", "f", "g", "h", "i", "j", "k", "l", "m",
      "n", "o", "p", "q", "r", "s", "t", "u", "v", "w", "x", "y", "z">>

\* String.prototype.toLowerCase, one character
LowerChar(c) ==
    IF \E k \in 1..26 : UpperChars[k] = c
      THEN LowerChars[CHOOSE k \in 1..26 : UpperChars[k] = c]
      ELSE c

\* String.prototype.toLowerCase
toLowerCase(s) == [k \in 1..Len(s) |-> LowerChar(s[k])]

\* whether pat occurs in s at (1-based) position p
OccursAt(s, pat, p) ==
    /\ p >= 1
    /\ p + Len(pat) - 1 <= Len(s)
    /\ \A k \in 1..Len(pat) : s[p + k - 1] = pat[k]

\* the first position from p on at which pat occurs in s; 0 when there is none
RECURSIVE IndexFrom(_, _, _)
IndexFrom(s, pat, p) ==
    IF p + Len(pat) - 1 > Len(s) THEN 0
    ELSE IF OccursAt(s, pat, p) THEN p
    ELSE IndexFrom(s, pat, p + 1)

\* String.prototype.indexOf, 1-based; 0 when pat does not occur (JS: -1)
indexOf(s, pat) == IndexFrom(s, pat, 1)

\* String.prototype.includes
includes(s, pat) == indexOf(s, pat) # 0

\* String.prototype.startsWith
startsWith(s, pat) == OccursAt(s, pat, 1)

\* String.prototype.endsWith
endsWith(s, pat) == Len(pat) <= Len(s) /\ OccursAt(s, pat, Len(s) - Len(pat) + 1)

\* String.prototype.replace with a string pattern: the first occurrence only
replaceFirst(s, pat, rep) ==
    LET p == indexOf(s, pat) IN
    IF p = 0 THEN s
    ELSE SubSeq(s, 1, p - 1) \o rep \o SubSeq(s, p + Len(pat), Len(s))

\* s.split('/').pop(): what follows the last '/', or s when it has none
lastSegment(s) ==
    LET slashes == {p \in 1..Len(s) : s[p] = "/"} IN
    IF slashes = {} THEN s
    ELSE SubSeq(s, (CHOOSE p \in slashes : \A q \in slashes : q <= p) + 1, Len(s))

\* length of the longest run of characters outside stop that starts at p
RECURSIVE RunLen(_, _, _)
RunLen(s, p, stop) ==
    IF p > Len(s) \/ s[p] \in stop THEN 0 ELSE 1 + RunLen(s, p + 1, stop)

\* length of the longest run of characters of class that starts at p
RECURSIVE ClassRunLen(_, _, _)
ClassRunLen(s, p, class) ==
    IF p > Len(s) \/ s[p] \notin class THEN 0 ELSE 1 + ClassRunLen(s, p + 1, class)

\* decimal digits of a natural number (template-literal interpolation)
RECURSIVE Digits(_)
Digits(n) ==
    LET d == <<"0", "1", "2", "3", "4", "5", "6", "7", "8", "9">>[(n % 10) + 1] IN
    IF n < 10 THEN <<d>> ELSE Digits(n \div 10) \o <<d>>

\* `${n}` for an integer n
NumberToString(n) == IF n < 0 THEN <<"-">> \o Digits(0 - n) ELSE Digits(n)

-----------------------------------------------------------------------------
(* Literals of the script.                                                 *)

Dash == <<"-">>
SshPrefix == <<"g", "i", "t", "@", "g", "i", "t", "h", "u", "b", ".", "c", "o", "m", ":">>
GitPrefix == <<"g", "i", "t", ":", "/", "/", "g", "i", "t", "h", "u", "b", ".", "c", "o", "m", "/">>
HttpsPrefix ==
    <<"h", "t", "t", "p", "s", ":", "/", "/", "g", "i", "t", "h", "u", "b", ".", "c", "o", "m", "/">>
GithubCom == <<"g", "i", "t", "h", "u", "b", ".", "c", "o", "m">>
DotGit == <<".", "g", "i", "t">>
DevPrefix == <<"d", "e", "v", "-">>
AsInfix == <<" ", "a", "s", " ">>
NoPR == <<"N", "o", " ", "P", "R">>
Yes == <<"Y", "e", "s">>
No == <<"N", "o">>
Ago == <<" ", "a", "g", "o">>
Ellipsis == "U+2026"    \* the single character appended by truncate

-----------------------------------------------------------------------------
(* normalizeGitHubUrl (lines 38-43)                                        *)
normalizeGitHubUrl(url) ==
    replaceFirst(replaceFirst(replaceFirst(url, SshPrefix, HttpsPrefix),
                              GitPrefix, HttpsPrefix),
                 HttpsPrefix, HttpsPrefix)

(* repoUrl.replace(/\.git$/, '').split('/').pop()  (line 270)              *)
repoNameOf(repoUrl) ==
    lastSegment(IF endsWith(repoUrl, DotGit)
                  THEN SubSeq(repoUrl, 1, Len(repoUrl) - Len(DotGit))
                  ELSE repoUrl)

(* repoUrl.match(/github\.com[:/]+([^/]+)\/([^/.]+)/) tried at position p  *)
(* with a separator run of k characters (lines 280-284).  [^/]+ is greedy  *)
(* and is followed by a literal '/', so it can only be the whole run of    *)
(* non-slash characters; the last group is greedy and ends the pattern.    *)
UrlMatchAt(s, p, k) ==
    LET sepStart == p + Len(GithubCom)
        ownerStart == sepStart + k
        ownerLen == RunLen(s, ownerStart, {"/"})
        repoStart == ownerStart + ownerLen + 1
        repoLen == RunLen(s, repoStart, {"/", "."})
    IN  [ok    |-> /\ OccursAt(s, GithubCom, p)
                   /\ k >= 1
                   /\ k <= ClassRunLen(s, sepStart, {":", "/"})
                   /\ ownerLen >= 1
                   /\ ownerStart + ownerLen <= Len(s)
                   /\ s[ownerStart + ownerLen] = "/"
                   /\ repoLen >= 1,
         owner |-> SubSeq(s, ownerStart, ownerStart + ownerLen - 1),
         repo  |-> SubSeq(s, repoStart, repoStart + repoLen - 1)]

(* The match the regular-expression engine reports: leftmost position,     *)
(* then the longest separator run that lets the rest match (lines 278-287).*)
(* owner and repo are the empty sequence when they stay undefined.         *)
extractOwnerRepo(repoUrl) ==
    LET starts == {p \in 1..Len(repoUrl) : OccursAt(repoUrl, GithubCom, p)}
        cands == {pk \in starts \X (1..Len(repoUrl)) :
                    /\ pk[2] <= ClassRunLen(repoUrl, pk[1] + Len(GithubCom), {":", "/"})
                    /\ UrlMatchAt(repoUrl, pk[1], pk[2]).ok}
    IN  IF cands = {} THEN [owner |-> <<>>, repo |-> <<>>]
        ELSE LET best == CHOOSE pk \in cands :
                           \A qk \in cands :
                             \/ pk[1] < qk[1]
                             \/ (pk[1] = qk[1] /\ pk[2] >= qk[2])
                 m == UrlMatchAt(repoUrl, best[1], best[2])
             IN  [owner |-> m.owner, repo |-> m.repo]


-----------------------------------------------------------------------------
(* relativeTime (lines 141-165).  A date string is modelled by what        *)
(* new Date(dateStr) makes of it: kind "absent" (undefined, null or ''),   *)
(* "invalid" (Invalid Date, whose difference is NaN) or "valid" with the   *)
(* epoch time split into whole seconds sec and the milliseconds msec in    *)
(* 0..999 on top of them, which keeps every number within 32 bits.         *)

\* `${n} unit${n === 1 ? '' : 's'} ago`
AgoText(n, unit) ==
    NumberToString(n) \o unit \o (IF n = 1 THEN <<>> ELSE <<"s">>) \o Ago

relativeTimeOfDiffInclusive(diff) ==
    IF diff <= 60 THEN AgoText(diff, <<" ", "s", "e", "c", "o", "n", "d">>)
    ELSE IF diff <= 3600 THEN AgoText(diff \div 60, <<" ", "m", "i", "n", "u", "t", "e">>)
    ELSE IF diff <= 86400 THEN AgoText(diff \div 3600, <<" ", "h", "o", "u", "r">>)
    ELSE IF diff <= 2592000 THEN AgoText(diff \div 86400, <<" ", "d", "a", "y">>)
    ELSE IF diff <= 31536000 THEN AgoText(diff \div 2592000, <<" ", "m", "o", "n", "t", "h">>)
    ELSE AgoText(diff \div 31536000, <<" ", "y", "e", "a", "r">>)

\* lines 146-164, for the integer diff of line 145
relativeTimeOfDiff(diff) ==
    IF diff < 60 THEN AgoText(diff, <<" ", "s", "e", "c", "o", "n", "d">>)
    ELSE IF diff < 3600 THEN AgoText(diff \div 60, <<" ", "m", "i", "n", "u", "t", "e">>)
    ELSE IF diff < 86400 THEN AgoText(diff \div 3600, <<" ", "h", "o", "u", "r">>)
    ELSE IF diff < 2592000 THEN AgoText(diff \div 86400, <<" ", "d", "a", "y">>)
    ELSE IF diff < 31536000 THEN AgoText(diff \div 2592000, <<" ", "m", "o", "n", "t", "h">>)
    ELSE AgoText(diff \div 31536000, <<" ", "y", "e", "a", "r">>)

\* lines 141-165; every comparison with NaN is false, so NaN falls to the last return
\* Math.floor((now - then) / 1000)  (line 145)
elapsedSeconds(then, nowDate) ==
    (nowDate.sec - then.sec) + ((nowDate.msec - then.msec) \div 1000)

relativeTime(dateStr, nowDate) ==
    IF dateStr.kind = "absent" THEN Dash
    ELSE IF dateStr.kind = "invalid"
      THEN <<"N", "a", "N">> \o <<" ", "y", "e", "a", "r">> \o <<"s">> \o Ago
    ELSE relativeTimeOfDiff(elapsedSeconds(dateStr, nowDate))

-----------------------------------------------------------------------------
(* truncate (lines 173-176)                                                *)
truncateFromMax(str, max) ==
    IF str = <<>> THEN Dash
    ELSE IF Len(str) >= max THEN SubSeq(str, 1, max) \o <<Ellipsis>> ELSE str

truncate(str, max) ==
    IF str = <<>> THEN Dash
    ELSE IF Len(str) > max THEN SubSeq(str, 1, max) \o <<Ellipsis>> ELSE str

-----------------------------------------------------------------------------
(* The version-constraint parsing of getForkStatus (lines 390-411).        *)
(* dev is FALSE on the early return of line 398.                           *)
parseBranchLegacy(version) ==
    IF ~startsWith(version, DevPrefix) THEN [dev |-> FALSE, branch |-> Dash]
    ELSE [dev |-> TRUE, branch |-> SubSeq(version, Len(DevPrefix) + 1, Len(version))]

parseBranch(version) ==
    IF ~startsWith(version, DevPrefix) THEN [dev |-> FALSE, branch |-> Dash]
    ELSE LET asIndex == indexOf(version, AsInfix) IN
         IF asIndex # 0
           THEN [dev |-> TRUE, branch |-> SubSeq(version, 5, asIndex - 1)]
           ELSE [dev |-> TRUE, branch |-> SubSeq(version, Len(DevPrefix) + 1, Len(version))]

-----------------------------------------------------------------------------
(* The dependency map (lines 88-90).  An object is the list of its own     *)
(* <<key, value>> entries in insertion order, which is the order of        *)
(* Object.entries for keys that are not array indices.                     *)

KeyIndex(obj, key) ==
    IF \E k \in 1..Len(obj) : obj[k][1] = key
      THEN CHOOSE k \in 1..Len(obj) : obj[k][1] = key
      ELSE 0

\* target[key] = value: an existing key keeps its place, a new one is appended
SetFirstWins(obj, key, value) ==
    IF KeyIndex(obj, key) # 0 THEN obj ELSE Append(obj, <<key, value>>)

SetProperty(obj, key, value) ==
    IF KeyIndex(obj, key) # 0
      THEN [obj EXCEPT ![KeyIndex(obj, key)] = <<key, value>>]
      ELSE Append(obj, <<key, value>>)

RECURSIVE AssignInto(_, _)
AssignInto(target, source) ==
    IF source = <<>> THEN target
    ELSE AssignInto(SetProperty(target, source[1][1], source[1][2]), Tail(source))

\* Object.assign({}, ...requireSections)  (line 90)
objectAssign(req, reqDev) == AssignInto(AssignInto(<<>>, req), reqDev)

\* (composer.repositories || []).filter(...)  (line 92)
RECURSIVE filterForks(_)
filterForks(repos) ==
    IF repos = <<>> THEN <<>>
    ELSE (IF repos[1].type = "vcs" /\ includes(repos[1].url, GithubCom)
            THEN <<repos[1]>> ELSE <<>>) \o filterForks(Tail(repos))

\* names every object literal inherits from Object.prototype
ObjectPrototypeKeys ==
    { <<"c", "o", "n", "s", "t", "r", "u", "c", "t", "o", "r">>,
      <<"_", "_", "p", "r", "o", "t", "o", "_", "_">>,
      <<"h", "a", "s", "O", "w", "n", "P", "r", "o", "p", "e", "r", "t", "y">>,
      <<"i", "s", "P", "r", "o", "t", "o", "t", "y", "p", "e", "O", "f">>,
      <<"p", "r", "o", "p", "e", "r", "t", "y", "I", "s", "E", "n", "u", "m", "e", "r", "a", "b", "l", "e">>,
      <<"t", "o", "L", "o", "c", "a", "l", "e", "S", "t", "r", "i", "n", "g">>,
      <<"t", "o", "S", "t", "r", "i", "n", "g">>,
      <<"v", "a", "l", "u", "e", "O", "f">> }

(* A match: found is the truthiness of `match`; isString is FALSE when the *)
(* second element is not a string (a function or object inherited from     *)
(* Object.prototype).                                                      *)
NoMatch == [found |-> FALSE, pkg |-> <<>>, version |-> <<>>, isString |-> TRUE]

Entry(e) == [found |-> TRUE, pkg |-> e[1], version |-> e[2], isString |-> TRUE]

\* Object.entries(obj).find(P), and filter(P)[0] when the filter is not empty,
\* for the set `hits` of the positions of the entries that satisfy P
FirstEntry(obj, hits) ==
    IF hits # {}
      THEN Entry(obj[CHOOSE k \in hits : \A j \in hits : k <= j])
      ELSE NoMatch

-----------------------------------------------------------------------------
(* The dependency matching of getForkStatus (lines 291-372).               *)

\* dependencies[packageNameFromRepo], guarded by both truthiness tests of line 295;
\* an object literal also answers for the names it inherits
Tier1(deps, packageNameFromRepo) ==
    IF packageNameFromRepo = <<>> THEN NoMatch
    ELSE IF KeyIndex(deps, packageNameFromRepo) # 0
      THEN (IF deps[KeyIndex(deps, packageNameFromRepo)][2] # <<>>
              THEN Entry(deps[KeyIndex(deps, packageNameFromRepo)])
              ELSE NoMatch)
    ELSE IF packageNameFromRepo \in ObjectPrototypeKeys
      THEN [found |-> TRUE, pkg |-> packageNameFromRepo, version |-> <<>>,
            isString |-> FALSE]
    ELSE NoMatch

Tier2CaseSensitive(deps, repoName) ==
    FirstEntry(deps, {k \in 1..Len(deps) : lastSegment(deps[k][1]) = repoName})

\* lines 303-311 (and again lines 317-327)
Tier2(deps, repoName) ==
    FirstEntry(deps, {k \in 1..Len(deps) :
        toLowerCase(lastSegment(deps[k][1])) = toLowerCase(repoName)})

\* lines 334-346
Tier3(deps, owner, repoName) ==
    IF owner = <<>> THEN NoMatch
    ELSE FirstEntry(deps, {k \in 1..Len(deps) :
        toLowerCase(deps[k][1]) = toLowerCase(owner) \o <<"/">> \o toLowerCase(repoName)})

\* lines 349-359
Tier4(deps, repoName) ==
    FirstEntry(deps, {k \in 1..Len(deps) : includes(deps[k][1], toLowerCase(repoName))})

\* lines 362-370
Tier5(deps, repoName) ==
    FirstEntry(deps, {k \in 1..Len(deps) :
        endsWith(toLowerCase(deps[k][1]), toLowerCase(repoName))})

matchDependencySubstringFirst(deps, owner, repoName, packageNameFromRepo) ==
    LET m1 == Tier1(deps, packageNameFromRepo) IN
    IF m1.found THEN m1
    ELSE IF Tier4(deps, repoName).found THEN Tier4(deps, repoName)
    ELSE IF Tier2(deps, repoName).found THEN Tier2(deps, repoName)
    ELSE IF Tier3(deps, owner, repoName).found THEN Tier3(deps, owner, repoName)
    ELSE Tier5(deps, repoName)

\* lines 292-372: the value of `match` at line 374
matchDependency(deps, owner, repoName, packageNameFromRepo) ==
    LET m1 == Tier1(deps, packageNameFromRepo) IN
    IF m1.found THEN m1
    ELSE LET exactMatches == Tier2(deps, repoName) IN
         IF exactMatches.found THEN exactMatches
         ELSE LET byName == Tier2(deps, repoName)
                  byVendor == IF ~byName.found /\ owner # <<>>
                                THEN Tier3(deps, owner, repoName) ELSE byName
                  byFullName == IF ~byVendor.found
                                  THEN Tier4(deps, repoName) ELSE byVendor
              IN  IF ~byFullName.found THEN Tier5(deps, repoName) ELSE byFullName

-----------------------------------------------------------------------------
(* encodeURIComponent (lines 208, 238, 420): the unreserved characters are *)
(* kept, every other (ASCII) character becomes its %XX escape.             *)
Unreserved ==
    {UpperChars[k] : k \in 1..26} \cup {LowerChars[k] : k \in 1..26}
      \cup {"0", "1", "2", "3", "4", "5", "6", "7", "8", "9"}
      \cup {"-", "_", ".", "!", "~", "*", "'", "(", ")"}

\* the escapes of the printable ASCII characters that are not unreserved (the
\* grave accent excepted)
EscapeChar(c) ==
    CASE c = " " -> <<"%", "2", "0">>
      [] c = "\"" -> <<"%", "2", "2">>
      [] c = "#" -> <<"%", "2", "3">>
      [] c = "$" -> <<"%", "2", "4">>
      [] c = "%" -> <<"%", "2", "5">>
      [] c = "&" -> <<"%", "2", "6">>
      [] c = "+" -> <<"%", "2", "B">>
      [] c = "," -> <<"%", "2", "C">>
      [] c = "/" -> <<"%", "2", "F">>
      [] c = ":" -> <<"%", "3", "A">>
      [] c = ";" -> <<"%", "3", "B">>
      [] c = "<" -> <<"%", "3", "C">>
      [] c = "=" -> <<"%", "3", "D">>
      [] c = ">" -> <<"%", "3", "E">>
      [] c = "?" -> <<"%", "3", "F">>
      [] c = "@" -> <<"%", "4", "0">>
      [] c = "[" -> <<"%", "5", "B">>
      [] c = "\\" -> <<"%", "5", "C">>
      [] c = "]" -> <<"%", "5", "D">>
      [] c = "^" -> <<"%", "5", "E">>
      [] c = "{" -> <<"%", "7", "B">>
      [] c = "|" -> <<"%", "7", "C">>
      [] c = "}" -> <<"%", "7", "D">>

RECURSIVE encodeURIComponent(_)
encodeURIComponent(s) ==
    IF s = <<>> THEN <<>>
    ELSE (IF s[1] \in Unreserved THEN <<s[1]>> ELSE EscapeChar(s[1]))
           \o encodeURIComponent(Tail(s))


-----------------------------------------------------------------------------
(* githubApi (lines 104-133).  What the network does with one request is   *)
(* an http outcome: net is "error" when the request emits 'error';         *)
(* otherwise status is the status code, parses tells whether the body is   *)
(* JSON, and payload is the value JSON.parse gives.  A payload is a record *)
(* of the properties the script reads; EmptyObject is {}.                  *)

AbsentDate == [kind |-> "absent", sec |-> 0, msec |-> 0]

EmptyObject ==
    [content |-> "absent", name |-> <<>>, description |-> <<>>,
     isArray |-> FALSE, date |-> AbsentDate, pulls |-> <<>>, merged |-> FALSE]

githubApi(http) ==
    IF http.net = "error" THEN [rejected |-> TRUE, value |-> EmptyObject]
    ELSE IF http.status >= 200 /\ http.status < 300 /\ http.parses
      THEN [rejected |-> FALSE, value |-> http.payload]
    ELSE [rejected |-> FALSE, value |-> EmptyObject]

\* const branchesToTry (line 55, called without a branch)
branchesToTry ==
    << <<"m", "a", "i", "n">>, <<"m", "a", "s", "t", "e", "r">>,
       <<"d", "e", "v", "e", "l", "o", "p">> >>

(* One turn of the loop of getPackageNameFromRepo (lines 57-81) on the     *)
(* answer r to the request for reference number refIdx: done with the      *)
(* value returned, or not done when the loop goes on to the next reference.*)
(* content is "undecodable" when Buffer.from or JSON.parse throws on it.   *)
packageNameStep(r, refIdx) ==
    IF r.rejected THEN [done |-> TRUE, name |-> <<>>]
    ELSE IF r.value.content = "undecodable" THEN [done |-> TRUE, name |-> <<>>]
    ELSE IF r.value.content = "json" /\ r.value.name # <<>>
      THEN [done |-> TRUE, name |-> r.value.name]
    ELSE IF refIdx < Len(branchesToTry) THEN [done |-> FALSE, name |-> <<>>]
    ELSE [done |-> TRUE, name |-> <<>>]

\* getRepoDescription (lines 184-195) on the answer r
getRepoDescription(r) ==
    IF r.rejected THEN Dash
    ELSE IF r.value.description # <<>> THEN truncate(r.value.description, 25)
    ELSE Dash

\* getBranchAge (lines 204-225) on the answer r
getBranchAge(r, nowDate) ==
    IF r.rejected THEN Dash
    ELSE IF r.value.isArray /\ r.value.date.kind # "absent"
      THEN relativeTime(r.value.date, nowDate)
    ELSE Dash

\* `[PR](${pulls[0].html_url})`  (line 248)
prLink(pull) == <<"[", "P", "R", "]", "(">> \o pull.html_url \o <<")">>

-----------------------------------------------------------------------------
(* Rows.  A table line is the record of its six cells.                     *)

tableHeader ==
    [age |-> <<"A", "g", "e">>, package |-> <<"P", "a", "c", "k", "a", "g", "e">>,
     branch |-> <<"B", "r", "a", "n", "c", "h">>,
     forkPr |-> <<"F", "o", "r", "k", " ", "P", "R">>,
     merged |-> <<"M", "e", "r", "g", "e", "d">>,
     description |-> <<"D", "e", "s", "c", "r", "i", "p", "t", "i", "o", "n">>]

tableDivider ==
    [age |-> <<"-", "-", "-", "-">>, package |-> <<"-", "-", "-", "-", "-", "-", "-">>,
     branch |-> <<"-", "-", "-", "-", "-", "-">>,
     forkPr |-> <<"-", "-", "-", "-", "-", "-", "-">>,
     merged |-> <<"-", "-", "-", "-", "-", "-">>,
     description |-> <<"-", "-", "-", "-", "-", "-", "-", "-", "-", "-", "-">>]

\* `${x}` of a string that may be undefined
Interpolate(x) ==
    IF x = <<>> THEN <<"u", "n", "d", "e", "f", "i", "n", "e", "d">> ELSE x

\* `[${text}](${href})`
MarkdownLink(text, href) == <<"[">> \o text \o <<"]", "(">> \o href \o <<")">>

placeholderRowRawUrl(fr) ==
    [age |-> Dash,
     package |-> MarkdownLink(fr.repoName, fr.repoUrl),
     branch |-> Dash, forkPr |-> Dash, merged |-> Dash,
     description |-> fr.description]

\* the row of lines 386 and 398
placeholderRow(fr) ==
    [age |-> Dash,
     package |-> MarkdownLink(fr.repoName, normalizeGitHubUrl(fr.repoUrl)),
     branch |-> Dash, forkPr |-> Dash, merged |-> Dash,
     description |-> fr.description]

\* the row of lines 418-427
statusRow(fr, forkPr, forkMerged) ==
    LET repoHref == HttpsPrefix \o Interpolate(fr.owner) \o <<"/">> \o Interpolate(fr.repo) IN
    [age |-> fr.age,
     package |-> MarkdownLink(fr.repoName, repoHref),
     branch |-> MarkdownLink(fr.branch,
                   repoHref \o <<"/", "t", "r", "e", "e", "/">> \o encodeURIComponent(fr.branch)),
     forkPr |-> forkPr, merged |-> forkMerged,
     description |-> fr.description]

-----------------------------------------------------------------------------
(* Requests.                                                               *)

NoRequest == [fork |-> 0, kind |-> "none", arg |-> <<>>]

ManifestRequest(k, refIdx) == [fork |-> k, kind |-> "manifest", arg |-> branchesToTry[refIdx]]
DescriptionRequest(k) == [fork |-> k, kind |-> "description", arg |-> <<>>]
CommitsRequest(k, branch) == [fork |-> k, kind |-> "commits", arg |-> branch]
PullsRequest(k, branch) == [fork |-> k, kind |-> "pulls", arg |-> branch]
MergeRequest(k, number) == [fork |-> k, kind |-> "merge", arg |-> NumberToString(number)]

requestsAfterDescriptionParallel(k, branch) ==
    <<CommitsRequest(k, branch), PullsRequest(k, branch)>>

\* what getForkStatus issues once the branch is known: getBranchAge is awaited
\* before getPRInfo is called (lines 423-425)
requestsAfterDescription(k, branch) == <<CommitsRequest(k, branch)>>


-----------------------------------------------------------------------------
(* Inputs of a run: the manifest and what the network answers.             *)

MaxRepos == 2       \* longest composer.repositories list
MaxPulls == 2       \* longest pull-request list the API returns

Acme == <<"a", "c", "m", "e">>
Widget == <<"w", "i", "d", "g", "e", "t">>
AcmeWidget == Acme \o <<"/">> \o Widget
AcmeWidgetExtras == AcmeWidget \o <<"-", "e", "x", "t", "r", "a", "s">>
DevFeatureY == DevPrefix \o <<"f", "e", "a", "t", "u", "r", "e", "/", "y">>
DevMainAlias == DevPrefix \o <<"m", "a", "i", "n">> \o AsInfix \o <<"1", ".", "x">>
Stable == <<"1", ".", "0">>

\* the values composer.require and composer['require-dev'] are drawn from
SectionPool ==
    { <<>>,
      << <<AcmeWidget, DevFeatureY>> >>,
      << <<AcmeWidget, Stable>> >>,
      << <<AcmeWidgetExtras, DevMainAlias>>, <<AcmeWidget, DevMainAlias>> >> }

\* the entries composer.repositories is drawn from: two forks on github.com in
\* two of the accepted URL forms, a github.com URL without a repository segment,
\* a fork hosted elsewhere and a repository that is not of type vcs
RepoPool ==
    { [type |-> "vcs", url |-> SshPrefix \o AcmeWidget \o DotGit],
      [type |-> "vcs", url |-> GitPrefix \o Acme \o <<"/", "g", "i", "z", "m", "o">>],
      [type |-> "vcs", url |-> HttpsPrefix \o Widget],
      [type |-> "vcs", url |-> <<"h", "t", "t", "p", "s", ":", "/", "/", "g", "i", "t",
                                 "l", "a", "b", ".", "c", "o", "m", "/">> \o AcmeWidget],
      [type |-> "composer", url |-> HttpsPrefix \o AcmeWidget] }

\* the lists of at most MaxRepos different entries
RepositoryLists ==
    {l \in UNION {[1..n -> RepoPool] : n \in 1..MaxRepos} :
       \A a, b \in 1..Len(l) : a # b => l[a] # l[b]}

NowDate == [kind |-> "valid", sec |-> 1700000000, msec |-> 0]

TransportOutcomes ==
    { [net |-> "error", status |-> 0, parses |-> FALSE, payload |-> EmptyObject],
      [net |-> "ok", status |-> 404, parses |-> TRUE, payload |-> EmptyObject],
      [net |-> "ok", status |-> 200, parses |-> FALSE, payload |-> EmptyObject],
      [net |-> "ok", status |-> 200, parses |-> TRUE, payload |-> EmptyObject] }

Ok(payload) == [net |-> "ok", status |-> 200, parses |-> TRUE, payload |-> payload]

\* the names the composer.json of repository repo may declare: none, the name
\* of a property of Object.prototype, and for the widget fork its package name
ManifestNames(repo) ==
    { <<>>, <<"c", "o", "n", "s", "t", "r", "u", "c", "t", "o", "r">> }
      \cup (IF repo = Widget THEN {AcmeWidget} ELSE {})

ManifestOutcomes(repo) ==
    TransportOutcomes
      \cup {Ok([EmptyObject EXCEPT !.content = "undecodable"])}
      \cup {Ok([EmptyObject EXCEPT !.content = "json", !.name = n]) :
              n \in ManifestNames(repo)}

LongDescription ==
    <<"A", " ", "s", "a", "m", "p", "l", "e", " ", "w", "i", "d", "g", "e", "t", " ",
      "l", "i", "b", "r", "a", "r", "y", " ", "f", "o", "r", " ", "t", "e", "s", "t",
      "i", "n", "g">>

\* descriptions of exactly 25 and of 26 characters
Descriptions == {SubSeq(LongDescription, 1, 25), SubSeq(LongDescription, 1, 26)}

DescriptionOutcomes ==
    TransportOutcomes
      \cup {Ok([EmptyObject EXCEPT !.description = d]) : d \in Descriptions}

CommitsOutcomes ==
    TransportOutcomes
      \cup {Ok([EmptyObject EXCEPT !.isArray = TRUE, !.date = d]) :
              d \in {AbsentDate,
                     [kind |-> "valid", sec |-> NowDate.sec - 86400, msec |-> 0]}}

\* the k-th pull request of the list the API returns for a branch
Pull(k) ==
    [html_url |-> <<"h", "t", "t", "p", "s", ":", "/", "/", "x", "/", "p", "u", "l",
                    "l", "/">> \o NumberToString(10 - k),
     number |-> 10 - k]

PullsOutcomes ==
    TransportOutcomes
      \cup {Ok([EmptyObject EXCEPT !.isArray = TRUE, !.pulls = [k \in 1..n |-> Pull(k)]]) :
              n \in 0..MaxPulls}

MergeOutcomes ==
    TransportOutcomes \cup {Ok([EmptyObject EXCEPT !.merged = TRUE])}

-----------------------------------------------------------------------------
(* The run: module load (lines 84-96), the main runner (lines 431-451) and *)
(* getForkStatus (lines 267-428), cut at each await of a request.          *)

\* requested collects the kinds of request the call has issued
NoFrame ==
    [repoUrl |-> <<>>, repoName |-> <<>>, owner |-> <<>>, repo |-> <<>>, refIdx |-> 0,
     match |-> NoMatch, description |-> <<>>, branch |-> <<>>, age |-> <<>>,
     pulls |-> <<>>, requested |-> {}]

NoAnswer == [rejected |-> FALSE, value |-> EmptyObject]

Init ==
    /\ require \in SectionPool
    /\ requireDev \in SectionPool
    /\ repositories \in RepositoryLists
    /\ dependencies = objectAssign(require, requireDev)
    /\ forks = filterForks(repositories)
    /\ now = NowDate
    /\ output = <<tableHeader, tableDivider>>
    /\ i = 1
    /\ pc = "loop"
    /\ frame = NoFrame
    /\ inflight = {}
    /\ lastIssued = NoRequest
    /\ lastAnswer = NoAnswer
    /\ finalOutput = <<>>
    /\ input = <<>>
    /\ result = <<>>

manifestVars == <<require, requireDev, repositories, dependencies, forks, now>>
probeVars == <<input, result>>

\* getForkStatus suspends at an await of the requests reqs (one after the other
\* in the order of the list), the request `answered` having been answered
Await(fr, stage, reqs, answered) ==
    /\ pc' = stage
    /\ frame' = [fr EXCEPT !.requested = @ \cup {reqs[k].kind : k \in 1..Len(reqs)}]
    /\ inflight' = (inflight \ answered) \cup {reqs[k] : k \in 1..Len(reqs)}
    /\ lastIssued' = reqs[Len(reqs)]
    /\ UNCHANGED <<output, i, finalOutput>>

\* getForkStatus returns row; the runner pushes it and takes the next fork
\* (lines 434-435)
ReturnRow(fr, row, answered) ==
    /\ output' = Append(output, row)
    /\ i' = i + 1
    /\ pc' = "loop"
    /\ frame' = fr
    /\ inflight' = inflight \ answered
    /\ UNCHANGED <<lastIssued, finalOutput>>

\* an exception leaves getForkStatus: the runner's promise rejects, nothing
\* handles it, and the process ends before line 438
Throw(fr, answered) ==
    /\ pc' = "crashed"
    /\ frame' = fr
    /\ inflight' = inflight \ answered
    /\ UNCHANGED <<output, i, lastIssued, finalOutput>>

\* lines 384-425, from the description to the next await or return
AfterDescription(fr, answered) ==
    IF ~fr.match.found THEN ReturnRow(fr, placeholderRow(fr), answered)
    ELSE IF ~fr.match.isString THEN Throw(fr, answered)
    ELSE IF ~parseBranch(fr.match.version).dev
      THEN ReturnRow(fr, placeholderRow(fr), answered)
    ELSE LET fr2 == [fr EXCEPT !.branch = parseBranch(fr.match.version).branch] IN
         IF fr.owner # <<>> /\ fr.repo # <<>>
           THEN Await(fr2, "commits", requestsAfterDescription(i, fr2.branch), answered)
           ELSE ReturnRow([fr2 EXCEPT !.age = Dash],
                          statusRow([fr2 EXCEPT !.age = Dash], NoPR, Dash), answered)

\* lines 433-434 and 267-294: the loop takes fork i and getForkStatus runs to its
\* first await, or to its return when owner/repo are undefined
BeginFork ==
    /\ pc = "loop"
    /\ i <= Len(forks)
    /\ LET repoUrl == forks[i].url
           or == extractOwnerRepo(repoUrl)
           fr == [NoFrame EXCEPT !.repoUrl = repoUrl, !.repoName = repoNameOf(repoUrl),
                                 !.owner = or.owner, !.repo = or.repo]
       IN  IF or.owner # <<>> /\ or.repo # <<>>
             THEN Await([fr EXCEPT !.refIdx = 1], "manifest", <<ManifestRequest(i, 1)>>, {})
             ELSE AfterDescription(
                    [fr EXCEPT !.match = matchDependency(dependencies, or.owner,
                                                         fr.repoName, <<>>),
                               !.description = Dash], {})
    /\ UNCHANGED <<manifestVars, probeVars, lastAnswer>>

\* line 62 resumes: getPackageNameFromRepo goes on or returns, and then
\* lines 295-382 run to the await of getRepoDescription
ManifestResponse ==
    /\ pc = "manifest"
    /\ \E req \in inflight, http \in ManifestOutcomes(frame.repo) :
         /\ req.kind = "manifest"
         /\ lastAnswer' = githubApi(http)
         /\ LET step == packageNameStep(githubApi(http), frame.refIdx) IN
            IF step.done
              THEN Await([frame EXCEPT !.refIdx = 0, !.match =
                            matchDependency(dependencies, frame.owner, frame.repoName,
                                            step.name)],
                         "description", <<DescriptionRequest(i)>>, {req})
              ELSE Await([frame EXCEPT !.refIdx = @ + 1], "manifest",
                         <<ManifestRequest(i, frame.refIdx + 1)>>, {req})
    /\ UNCHANGED <<manifestVars, probeVars>>

\* line 187 resumes
DescriptionResponse ==
    /\ pc = "description"
    /\ \E req \in inflight, http \in DescriptionOutcomes :
         /\ req.kind = "description"
         /\ lastAnswer' = githubApi(http)
         /\ AfterDescription(
              [frame EXCEPT !.description = getRepoDescription(githubApi(http))], {req})
    /\ UNCHANGED <<manifestVars, probeVars>>

\* line 213 resumes; getPRInfo is called and awaits the pull-request list
CommitsResponse ==
    /\ pc = "commits"
    /\ \E req \in inflight, http \in CommitsOutcomes :
         /\ req.kind = "commits"
         /\ lastAnswer' = githubApi(http)
         /\ Await([frame EXCEPT !.age = getBranchAge(githubApi(http), now)], "pulls",
                  <<PullsRequest(i, frame.branch)>>, {req})
    /\ UNCHANGED <<manifestVars, probeVars>>

\* line 243 resumes
PullsResponse ==
    /\ pc = "pulls"
    /\ \E req \in inflight, http \in PullsOutcomes :
         /\ req.kind = "pulls"
         /\ lastAnswer' = githubApi(http)
         /\ LET r == githubApi(http) IN
            IF r.rejected THEN ReturnRow(frame, statusRow(frame, NoPR, Dash), {req})
            ELSE IF r.value.isArray /\ r.value.pulls # <<>>
              THEN Await([frame EXCEPT !.pulls = r.value.pulls], "merge",
                         <<MergeRequest(i, r.value.pulls[1].number)>>, {req})
            ELSE ReturnRow(frame, statusRow(frame, NoPR, Dash), {req})
    /\ UNCHANGED <<manifestVars, probeVars>>

\* line 251 resumes; forkPr was assigned at line 248, before the request
MergeResponse ==
    /\ pc = "merge"
    /\ \E req \in inflight, http \in MergeOutcomes :
         /\ req.kind = "merge"
         /\ lastAnswer' = githubApi(http)
         /\ LET r == githubApi(http) IN
            IF r.rejected
              THEN ReturnRow(frame, statusRow(frame, prLink(frame.pulls[1]), Dash), {req})
              ELSE ReturnRow(frame, statusRow(frame, prLink(frame.pulls[1]),
                                              IF r.value.merged THEN Yes ELSE No), {req})
    /\ UNCHANGED <<manifestVars, probeVars>>

\* lines 438-441: the loop is over
Finish ==
    /\ pc = "loop"
    /\ i > Len(forks)
    /\ finalOutput' = output
    /\ pc' = "done"
    /\ UNCHANGED <<manifestVars, probeVars, output, i, frame, inflight, lastIssued,
                   lastAnswer>>

Next ==
    \/ BeginFork
    \/ ManifestResponse
    \/ DescriptionResponse
    \/ CommitsResponse
    \/ PullsResponse
    \/ MergeResponse
    \/ Finish

Spec == Init /\ [][Next]_vars


-----------------------------------------------------------------------------
(* Properties of a run.                                                    *)

\* the row pushed last, and whether a getForkStatus call has returned and no
\* other has begun since (frame then holds the locals of that call)
LastRow == output[Len(output)]
JustReturned == pc \in {"loop", "done"} /\ Len(output) > 2

\* C1: whatever the network answers, the run completes and the final table is
\* the header, the divider and one row per declared fork in declaration order;
\* no error leaves getForkStatus.
C1_RunCompletesWithFullTable ==
    /\ pc # "crashed"
    /\ pc = "done" =>
         /\ Len(finalOutput) = Len(forks) + 2
         /\ finalOutput[1] = tableHeader
         /\ finalOutput[2] = tableDivider
         /\ \A k \in 1..Len(forks) :
              startsWith(finalOutput[k + 2].package,
                         <<"[">> \o repoNameOf(forks[k].url) \o <<"]">>)

\* place of a request in the order manifest lookups (main, master, develop),
\* repository description, latest commit, pull-request list, merge status
StageRank(req) ==
    CASE req.kind = "manifest" ->
           CHOOSE k \in 1..Len(branchesToTry) : branchesToTry[k] = req.arg
      [] req.kind = "description" -> 4
      [] req.kind = "commits" -> 5
      [] req.kind = "pulls" -> 6
      [] req.kind = "merge" -> 7
      [] OTHER -> 0

\* C2: at most one request is outstanding; a request is issued only when every
\* earlier one has completed, for the fork the loop is at, never for an earlier
\* fork, and within a fork later in the order manifest, description, commits,
\* pulls, merge than the request issued before it.
C2_StrictlySequential ==
    [][ /\ Cardinality(inflight') <= 1
        /\ \A r \in inflight' \ inflight :
             /\ inflight' = {r}
             /\ lastIssued' = r
             /\ r.fork = i
             /\ r.fork >= lastIssued.fork
             /\ r.fork = lastIssued.fork => StageRank(lastIssued) < StageRank(r)
             /\ r.fork > lastIssued.fork => StageRank(r) = 1
      ]_vars

\* C2 witness: the merge-status request of the second fork is outstanding after
\* the first fork's requests were answered and its row pushed
C2_Witness ==
    /\ Len(output) = 3
    /\ output[3].description # Dash
    /\ \E r \in inflight : r.fork = 2 /\ r.kind = "merge"

\* the answer to a manifest request yields a package identifier
YieldsIdentifier(answer) ==
    /\ ~answer.rejected
    /\ answer.value.content = "json"
    /\ answer.value.name # <<>>

\* C12: the manifest is requested at main, master, develop in that order until
\* one yields a package identifier: after an answer without identifier (failed
\* request, non-2xx status, undecodable content, manifest without name) the next
\* reference is requested, unless it was the last; after an answer with
\* identifier none is; and no such answer ends the run.
C12_ReferencesUntilFirstSuccess ==
    [][ pc = "manifest" =>
          /\ pc' # "crashed"
          /\ IF YieldsIdentifier(lastAnswer') \/ StageRank(lastIssued) = Len(branchesToTry)
               THEN \A r \in inflight' : r.kind # "manifest"
               ELSE inflight' = {ManifestRequest(i, StageRank(lastIssued) + 1)}
      ]_vars

\* the https://github.com/OWNER/REPO form of a URL given in one of the three
\* accepted forms
CanonicalLink(url) ==
    IF startsWith(url, SshPrefix)
      THEN HttpsPrefix \o SubSeq(url, Len(SshPrefix) + 1, Len(url))
    ELSE IF startsWith(url, GitPrefix)
      THEN HttpsPrefix \o SubSeq(url, Len(GitPrefix) + 1, Len(url))
    ELSE url

\* C5: when no dependency matched, or the matched constraint does not begin with
\* dev-, the row has '-' for age, branch, fork PR and merged, the canonical
\* repository link and the fetched description, and no commits, pulls or merge
\* request was issued for the fork.
C5_PlaceholderRow ==
    (/\ JustReturned
     /\ \/ ~frame.match.found
        \/ frame.match.isString /\ ~startsWith(frame.match.version, DevPrefix))
      => /\ LastRow.age = Dash
         /\ LastRow.branch = Dash
         /\ LastRow.forkPr = Dash
         /\ LastRow.merged = Dash
         /\ LastRow.package = MarkdownLink(frame.repoName, CanonicalLink(frame.repoUrl))
         /\ LastRow.description = frame.description
         /\ frame.requested \cap {"commits", "pulls", "merge"} = {}

\* C5 witness: a fork given by its ssh URL matched a constraint that is not
\* branch-tracking, its description was fetched and its row pushed
C5_Witness ==
    /\ JustReturned
    /\ frame.match.found
    /\ ~startsWith(frame.match.version, DevPrefix)
    /\ startsWith(frame.repoUrl, SshPrefix)
    /\ LastRow.description # Dash

\* C6: a fork whose URL does not match the owner/repo pattern issues no request
\* and its row holds '-' in every field but the package, whatever the
\* dependency map contains.
C6_UnparsedUrlRowIsPlaceholder ==
    (JustReturned /\ frame.owner = <<>>)
      => /\ frame.requested = {}
         /\ LastRow.age = Dash
         /\ LastRow.branch = Dash
         /\ LastRow.forkPr = Dash
         /\ LastRow.merged = Dash
         /\ LastRow.description = Dash

\* C7: in the row of a branch-tracking fork, if the pull-request lookup returned
\* a pull request the fork-PR field links the first one and merged is Yes or No;
\* otherwise the fields are 'No PR' and '-'.
C7_PrAndMergedConsistent ==
    (JustReturned /\ "pulls" \in frame.requested)
      => IF frame.pulls # <<>>
           THEN /\ LastRow.forkPr = MarkdownLink(<<"P", "R">>, frame.pulls[1].html_url)
                /\ LastRow.merged \in {Yes, No}
           ELSE /\ LastRow.forkPr = NoPR
                /\ LastRow.merged = Dash

\* what the description field is to be for the answer to the repository request
ExpectedDescription(answer) ==
    IF answer.rejected \/ answer.value.description = <<>> THEN Dash
    ELSE IF Len(answer.value.description) <= 25 THEN answer.value.description
    ELSE SubSeq(answer.value.description, 1, 25) \o <<Ellipsis>>

C9_Rows ==
    JustReturned =>
      /\ LastRow.description = frame.description
      /\ Len(LastRow.description) <= 26
      /\ (frame.owner = <<>> \/ frame.repo = <<>>) => LastRow.description = Dash
      /\ (frame.owner # <<>> /\ frame.repo # <<>>) => "description" \in frame.requested

\* C9: the description is requested whenever owner and repo are known, whatever
\* the match; the field is '-' without owner/repo, on a failed request and on an
\* absent or empty description, the description itself up to 25 characters, and
\* its first 25 characters and an ellipsis beyond; it never exceeds 26.
C9_DescriptionField ==
    /\ [][ (pc = "description" /\ pc' # "description")
             => frame'.description = ExpectedDescription(lastAnswer') ]_vars
    /\ []C9_Rows

\* C9 witness: a description of 26 characters was truncated on the row of a
\* fork without matching dependency
C9_Witness ==
    /\ JustReturned
    /\ ~frame.match.found
    /\ \E d \in Descriptions :
         /\ Len(d) = 26
         /\ lastAnswer.value.description = d
         /\ LastRow.description = SubSeq(d, 1, 25) \o <<Ellipsis>>

Keys(obj) == {obj[k][1] : k \in 1..Len(obj)}
ValueOf(obj, key) == obj[CHOOSE k \in 1..Len(obj) : obj[k][1] = key][2]

C10_Merged ==
    /\ Keys(dependencies) = Keys(require) \cup Keys(requireDev)
    /\ Len(dependencies) = Cardinality(Keys(dependencies))
    /\ \A key \in Keys(dependencies) :
         ValueOf(dependencies, key) =
           IF key \in Keys(requireDev) THEN ValueOf(requireDev, key)
           ELSE ValueOf(require, key)

\* C10: the dependency map holds every key of either section, with the
\* development section's constraint for a key of both, and no step of a run
\* changes it.
C10_DependencyMap ==
    /\ []C10_Merged
    /\ [][dependencies' = dependencies]_vars

\* C10 witness: a key of both sections with different constraints, and a fork
\* processed
C10_Witness ==
    /\ JustReturned
    /\ \E key \in Keys(require) \cap Keys(requireDev) :
         /\ ValueOf(require, key) # ValueOf(requireDev, key)
         /\ ValueOf(dependencies, key) = ValueOf(requireDev, key)


-----------------------------------------------------------------------------
(* The pure routines on their own: one call per behaviour, the argument in *)
(* input, the value returned in result.                                    *)

\* the state before a call of a routine with an argument of `inputs`
CallInit(inputs) ==
    /\ require = <<>>
    /\ requireDev = <<>>
    /\ repositories = <<>>
    /\ dependencies = <<>>
    /\ forks = <<>>
    /\ now = NowDate
    /\ output = <<>>
    /\ i = 1
    /\ pc = "call"
    /\ frame = NoFrame
    /\ inflight = {}
    /\ lastIssued = NoRequest
    /\ lastAnswer = NoAnswer
    /\ finalOutput = <<>>
    /\ input \in inputs
    /\ result = <<>>

runVars ==
    <<require, requireDev, repositories, dependencies, forks, now, output, i, frame,
      inflight, lastIssued, lastAnswer, finalOutput>>

\* ---- the dependency matching, lines 291-372

MaxDeps == 3        \* most keys of a dependency map given to the matching

DisplayName == <<"W", "i", "d", "g", "e", "t">>
OwnerName == <<"A", "c", "m", "e">>
RealName == <<"r", "e", "a", "l", "/", "n", "a", "m", "e">>

\* entries whose keys meet the display name Widget in the different ways the
\* tiers test: last segment, owner/name, substring, suffix, manifest name, none
MatcherEntries ==
    { <<<<"a", "c", "m", "e", "/", "w", "i", "d", "g", "e", "t">>, DevFeatureY>>,
      <<<<"v", "e", "n", "d", "o", "r", "/", "W", "i", "d", "g", "e", "t">>, Stable>>,
      <<<<"v", "e", "n", "d", "o", "r", "/", "w", "i", "d", "g", "e", "t", "-", "e", "x", "t", "r", "a", "s">>, DevMainAlias>>,
      <<<<"v", "e", "n", "d", "o", "r", "/", "M", "y", "W", "i", "d", "g", "e", "t">>, DevFeatureY>>,
      <<RealName, DevMainAlias>>,
      <<RealName, <<>> >>,
      <<<<"s", "i", "l", "v", "e", "r", "s", "t", "r", "i", "p", "e", "/", "a", "d", "m", "i", "n">>, Stable>> }

MatcherMaps ==
    { d \in UNION { [1..n -> MatcherEntries] : n \in 0..MaxDeps } :
        \A j, k \in 1..Len(d) : j # k => d[j][1] # d[k][1] }

\* fork URLs: the ssh form, one without owner (the pattern of line 280 fails),
\* and one ending in a slash (the display name is empty)
MatcherUrls ==
    { SshPrefix \o OwnerName \o <<"/">> \o DisplayName \o DotGit,
      HttpsPrefix \o DisplayName,
      HttpsPrefix \o OwnerName \o <<"/">> \o DisplayName \o <<"/">> }

\* owner and display name are taken from the URL (lines 270-287), and the
\* manifest is read only with owner and repo (line 293)
MatcherInputs ==
    { in \in { [deps |-> d, owner |-> extractOwnerRepo(u).owner,
                repoName |-> repoNameOf(u), packageNameFromRepo |-> n] :
                 d \in MatcherMaps, u \in MatcherUrls, n \in {<<>>, RealName} } :
        in.owner = <<>> => in.packageNameFromRepo = <<>> }

InitMatcher == CallInit(MatcherInputs)

MatchCall ==
    /\ pc = "call"
    /\ pc' = "returned"
    /\ result' = matchDependency(input.deps, input.owner, input.repoName,
                                 input.packageNameFromRepo)
    /\ UNCHANGED <<runVars, input>>

NextMatcher == MatchCall

SpecMatcher == InitMatcher /\ [][NextMatcher]_vars

\* the results of the five tiers for the call's arguments, in order
TierResults ==
    << Tier1(input.deps, input.packageNameFromRepo),
       Tier2(input.deps, input.repoName),
       Tier3(input.deps, input.owner, input.repoName),
       Tier4(input.deps, input.repoName),
       Tier5(input.deps, input.repoName) >>

LowerEqual(a, b) ==
    /\ Len(a) = Len(b)
    /\ \A k \in 1..Len(a) : LowerChar(a[k]) = LowerChar(b[k])

\* the key's segment after its last '/' is the name, case-insensitively
LastSegmentIs(key, name) ==
    \E p \in 1..(Len(key) + 1) :
      /\ \A q \in p..Len(key) : key[q] # "/"
      /\ p > 1 => key[p - 1] = "/"
      /\ LowerEqual(SubSeq(key, p, Len(key)), name)

ContainsText(key, text) ==
    \E p \in 1..(Len(key) - Len(text) + 1) : SubSeq(key, p, p + Len(text) - 1) = text

\* C3: the matching returns the result of the first tier, in the order 1 to 5,
\* that succeeds, and no match when none does; and when tier 1 fails and a key's
\* last segment equals the display name, the first such key is returned, also
\* with a key that merely contains the display name earlier in the map.
C3_FirstTierWins ==
    pc = "returned" =>
      LET tiers == TierResults
          suffixKeys == {k \in 1..Len(input.deps) :
                           LastSegmentIs(input.deps[k][1], input.repoName)}
      IN  /\ IF \E t \in 1..5 : tiers[t].found
               THEN \E t \in 1..5 :
                      /\ tiers[t].found
                      /\ \A u \in 1..(t - 1) : ~tiers[u].found
                      /\ result = tiers[t]
               ELSE ~result.found
          /\ \A k \in suffixKeys :
               (~tiers[1].found /\ \A j \in suffixKeys : k <= j)
                 => /\ result.found
                    /\ result.pkg = input.deps[k][1]
                    /\ result.version = input.deps[k][2]

\* C3 witness: a key containing the display name only as a substring precedes a
\* key whose last segment is the display name, and the latter was returned
C3_Witness ==
    /\ pc = "returned"
    /\ \E j, k \in 1..Len(input.deps) :
         /\ j < k
         /\ ContainsText(input.deps[j][1], toLowerCase(input.repoName))
         /\ ~LastSegmentIs(input.deps[j][1], input.repoName)
         /\ LastSegmentIs(input.deps[k][1], input.repoName)
         /\ result.found
         /\ result.pkg = input.deps[k][1]

\* C11: tier 1 succeeds exactly when the name declared by the fork's manifest
\* is a key of the dependency map: the result is then that key with its
\* constraint, whatever the constraint and whatever the lower tiers would
\* select; otherwise the result is that of the matching without a manifest name.
C11_Tier1ExactlyWhenKey ==
    (pc = "returned" /\ input.packageNameFromRepo # <<>>) =>
      IF input.packageNameFromRepo \in Keys(input.deps)
        THEN /\ result.found
             /\ result.pkg = input.packageNameFromRepo
             /\ result.version = ValueOf(input.deps, input.packageNameFromRepo)
        ELSE result = matchDependency(input.deps, input.owner, input.repoName, <<>>)

\* the key, lower-cased, contains the lower-cased name
ContainsIgnoringCase(key, name) ==
    \E p \in 1..(Len(key) - Len(name) + 1) :
      LowerEqual(SubSeq(key, p, p + Len(name) - 1), name)

\* C13: when tiers 1 to 3 fail, the result is the first key in map order whose
\* lower-cased form contains the lower-cased display name, whatever the letter
\* case of the key and of the display name.
C13_Tier4IgnoresCase ==
    pc = "returned" =>
      LET tiers == TierResults
          holders == {k \in 1..Len(input.deps) :
                        ContainsIgnoringCase(input.deps[k][1], input.repoName)}
      IN  \A k \in holders :
            (/\ ~tiers[1].found /\ ~tiers[2].found /\ ~tiers[3].found
             /\ \A j \in holders : k <= j)
              => /\ result.found
                 /\ result.pkg = input.deps[k][1]
                 /\ result.version = input.deps[k][2]

\* the matching with tier 3 removed
matchWithoutTier3(tiers) ==
    IF tiers[1].found THEN tiers[1]
    ELSE IF tiers[2].found THEN tiers[2]
    ELSE IF tiers[4].found THEN tiers[4]
    ELSE tiers[5]

\* C15: tier 3 never decides a match: a key equal to owner/displayName, case
\* ignored, has a last segment equal to the display name, case ignored, so
\* tier 2 succeeds whenever tier 3 would, and the result is that of the
\* matching without tier 3.
C15_Tier3NeverDecides ==
    pc = "returned" =>
      LET tiers == TierResults IN
      /\ \A k \in 1..Len(input.deps) :
           (/\ input.owner # <<>>
            /\ LowerEqual(input.deps[k][1], input.owner \o <<"/">> \o input.repoName))
             => LastSegmentIs(input.deps[k][1], input.repoName)
      /\ tiers[3].found => tiers[2].found
      /\ result = matchWithoutTier3(tiers)

\* C15 witness: the map holds the key owner/displayName, tier 1 failed, and the
\* key was returned
C15_Witness ==
    /\ pc = "returned"
    /\ input.owner # <<>>
    /\ ~TierResults[1].found
    /\ \E k \in 1..Len(input.deps) :
         /\ LowerEqual(input.deps[k][1], input.owner \o <<"/">> \o input.repoName)
         /\ result.found
         /\ result.pkg = input.deps[k][1]

\* ---- the version-constraint parsing, lines 395-411

MaxParts == 4       \* most tokens a sampled version constraint is built of

ConstraintTokens ==
    { DevPrefix, AsInfix, <<"a">>, <<"s">>, <<"/">>, <<" ">>, <<"1">> }

RECURSIVE Concat(_)
Concat(parts) == IF parts = <<>> THEN <<>> ELSE Head(parts) \o Concat(Tail(parts))

ParseInputs ==
    { Concat(parts) : parts \in UNION { [1..n -> ConstraintTokens] : n \in 0..MaxParts } }

InitParse == CallInit(ParseInputs)

ParseCall ==
    /\ pc = "call"
    /\ pc' = "returned"
    /\ result' = parseBranch(input)
    /\ UNCHANGED <<runVars, input>>

NextParse == ParseCall

SpecParse == InitParse /\ [][NextParse]_vars

BeginsWithDev ==
    Len(input) >= 4 /\ <<input[1], input[2], input[3], input[4]>> = DevPrefix

\* ' as ' stands at position p of s
AsAt(s, p) ==
    /\ p + 3 <= Len(s)
    /\ <<s[p], s[p + 1], s[p + 2], s[p + 3]>> = AsInfix

\* C4: a branch name is yielded exactly for the constraints beginning with dev-;
\* without ' as ' it is all the text after the prefix, with ' as ' the text
\* between the prefix and the first ' as '; any other constraint yields no branch.
C4_BranchParse ==
    pc = "returned" =>
      /\ result.dev <=> BeginsWithDev
      /\ ~BeginsWithDev => result.branch = Dash
      /\ (BeginsWithDev /\ \A p \in 1..Len(input) : ~AsAt(input, p))
           => result.branch = [k \in 1..(Len(input) - 4) |-> input[k + 4]]
      /\ \A p \in 1..Len(input) :
           (BeginsWithDev /\ AsAt(input, p) /\ \A q \in 1..(p - 1) : ~AsAt(input, q))
             => result.branch = [k \in 1..(p - 5) |-> input[k + 4]]

\* C4 witness: an aliased constraint whose branch name holds a slash was parsed
C4_Witness ==
    /\ pc = "returned"
    /\ result.dev
    /\ \E p \in 1..Len(input) : AsAt(input, p)
    /\ \E k \in 1..Len(result.branch) : result.branch[k] = "/"

\* ---- relativeTime, lines 141-165

MaxCount == 3       \* largest multiple of each unit among the sampled ages

UnitSeconds == <<1, 60, 3600, 86400, 2592000, 31536000>>
UnitWords ==
    << <<"s", "e", "c", "o", "n", "d">>, <<"m", "i", "n", "u", "t", "e">>, <<"h", "o", "u", "r">>, <<"d", "a", "y">>, <<"m", "o", "n", "t", "h">>, <<"y", "e", "a", "r">> >>

\* ages around every multiple of every unit, among them the unit boundaries
ElapsedSamples ==
    { k * UnitSeconds[u] + e : u \in 1..6, k \in 0..MaxCount, e \in {0 - 1, 0, 1} }

\* commit dates that far before (or, by a second, after) the current time, on
\* the second or half a second past it
TimeInputs ==
    { [kind |-> "valid", sec |-> NowDate.sec - d, msec |-> ms] :
        d \in ElapsedSamples, ms \in {0, 500} }
    \cup {AbsentDate, [kind |-> "invalid", sec |-> 0, msec |-> 0]}

InitTime == CallInit(TimeInputs)

TimeCall ==
    /\ pc = "call"
    /\ pc' = "returned"
    /\ result' = relativeTime(input, now)
    /\ UNCHANGED <<runVars, input>>

NextTime == TimeCall

SpecTime == InitTime /\ [][NextTime]_vars

\* the whole seconds elapsed from the commit date to the current time
WholeSeconds ==
    IF input.msec <= now.msec THEN now.sec - input.sec ELSE now.sec - input.sec - 1

UnitThresholds == <<60, 3600, 86400, 2592000, 31536000>>

\* the unit the thresholds choose for an age of d seconds
ChosenUnit(d) == 1 + Cardinality({t \in 1..5 : d >= UnitThresholds[t]})

DigitChars == <<"0", "1", "2", "3", "4", "5", "6", "7", "8", "9">>

RECURSIVE DecimalValue(_)
DecimalValue(s) ==
    IF s = <<>> THEN 0
    ELSE 10 * DecimalValue(SubSeq(s, 1, Len(s) - 1))
           + (CHOOSE v \in 0..9 : DigitChars[v + 1] = s[Len(s)])

\* the part of a rendered age after its first space
AfterNumber(text) ==
    LET sp == CHOOSE p \in 1..Len(text) :
                text[p] = " " /\ \A q \in 1..(p - 1) : text[q] # " "
    IN  SubSeq(text, sp + 1, Len(text))

\* the part before it is n in decimal, without sign or leading zero
NumberIs(text, n) ==
    LET digits == SubSeq(text, 1, Len(text) - Len(AfterNumber(text)) - 1) IN
    /\ digits # <<>>
    /\ \A q \in 1..Len(digits) : \E v \in 1..10 : DigitChars[v] = digits[q]
    /\ Len(digits) > 1 => digits[1] # "0"
    /\ DecimalValue(digits) = n

\* the unit a rendered age names
RenderedUnit(text) ==
    CHOOSE u \in 1..6 :
      AfterNumber(text) \in {UnitWords[u] \o <<" ", "a", "g", "o">>, UnitWords[u] \o <<"s", " ", "a", "g", "o">>}

\* C8: for whole seconds d >= 0 elapsed, the age reads '<n> <unit> ago' with the
\* unit chosen by the thresholds 60, 3600, 86400, 2592000, 31536000, n the floor
\* of d over the unit's seconds and the unit plural exactly when n is not 1; the
\* unit never gets smaller as d grows; 0, 59, 60, 3599, 3600, 86399, 86400 read
\* '0 seconds ago', seconds, '1 minute ago', minutes, '1 hour ago', hours,
\* '1 day ago'.
C8_RelativeTime ==
    (pc = "returned" /\ input.kind = "valid" /\ WholeSeconds >= 0) =>
      LET d == WholeSeconds
          u == ChosenUnit(d)
      IN  /\ \E n \in 0..59 :
                /\ n * UnitSeconds[u] <= d
                /\ d - UnitSeconds[u] < n * UnitSeconds[u]
                /\ NumberIs(result, n)
                /\ AfterNumber(result)
                     = UnitWords[u] \o (IF n # 1 THEN <<"s">> ELSE <<>>) \o <<" ", "a", "g", "o">>
          /\ \A e \in ElapsedSamples :
                (0 <= e /\ e <= d)
                  => RenderedUnit(relativeTimeOfDiff(e)) <= RenderedUnit(result)
          /\ d = 0 => result = <<"0", " ", "s", "e", "c", "o", "n", "d", "s", " ", "a", "g", "o">>
          /\ d = 59 => RenderedUnit(result) = 1
          /\ d = 60 => result = <<"1", " ", "m", "i", "n", "u", "t", "e", " ", "a", "g", "o">>
          /\ d = 3599 => RenderedUnit(result) = 2
          /\ d = 3600 => result = <<"1", " ", "h", "o", "u", "r", " ", "a", "g", "o">>
          /\ d = 86399 => RenderedUnit(result) = 3
          /\ d = 86400 => result = <<"1", " ", "d", "a", "y", " ", "a", "g", "o">>

\* C8 witness: a commit 60.5 seconds old was rendered
C8_Witness ==
    /\ pc = "returned"
    /\ input.kind = "valid"
    /\ input.msec = 500
    /\ WholeSeconds = 60
    /\ result = <<"1", " ", "m", "i", "n", "u", "t", "e", " ", "a", "g", "o">>

\* text reads '<non-negative integer> <unit> ago' or '<...> <unit>s ago'
ReadsAsAge(text) ==
    /\ \E p \in 2..Len(text) :
         /\ text[p] = " "
         /\ \A q \in 1..(p - 1) : \E v \in 1..10 : DigitChars[v] = text[q]
    /\ \E u \in 1..6 :
         AfterNumber(text) \in {UnitWords[u] \o <<" ", "a", "g", "o">>, UnitWords[u] \o <<"s", " ", "a", "g", "o">>}

\* C14: for a commit date in the future the age reads '0 seconds ago', and for
\* every input the age is '-' or reads '<non-negative integer> <unit>(s) ago'.
C14_FutureReadsZero ==
    pc = "returned" =>
      /\ (input.kind = "valid" /\ WholeSeconds < 0) => result = <<"0", " ", "s", "e", "c", "o", "n", "d", "s", " ", "a", "g", "o">>
      /\ result = Dash \/ ReadsAsAge(result)

=============================================================================
